---- MODULE Spec2Model ----
(***************************************************************************)
(* Model of src/script.js, the bell-schedule page of whs-schedule.         *)
(*                                                                         *)
(* Time.  An instant is a whole number of clock ticks (the page's clock    *)
(* has a resolution of one second: getNow goes through toLocaleString).    *)
(* A day has MinutesPerDay minutes of TicksPerMinute ticks each, so that   *)
(* bell rows, which are written in whole minutes, and "now", which has     *)
(* seconds, keep their different resolutions.  Day 0 is the Wednesday of   *)
(* the fallback schoolYear.start (2025-08-13).                             *)
(*                                                                         *)
(* An optional value (debugNow, lastRenderedDate) is the empty set or a    *)
(* singleton.  The result of Array.prototype.find over a table is the      *)
(* index of the row found, 0 for undefined.                                *)
(***************************************************************************)
EXTENDS Integers, Sequences, FiniteSets, TLC

\* ---------------------------------------------------------------- bounds
NDays == 6
MinutesPerDay == 3
TicksPerMinute == 2
MaxClock == 1
MaxBanners == 2

\* JS getDay() of day 0 (2025-08-13, a Wednesday)
EpochWeekday == 3
TicksPerDay == MinutesPerDay * TicksPerMinute
\* ticks by which UTC is ahead of the page's zone (America/Denver: a quarter of a day)
UtcOffsetTicks == TicksPerDay \div 4
Instants == 0 .. (NDays * TicksPerDay - 1)
ClockStart == TicksPerDay + TicksPerMinute - 1

VARIABLES
  pc,                 \* "boot" | "loaded" | "running": position of the DOMContentLoaded handler
  scheduleFile,       \* what fetch('schedule-data.json') delivers
  icsFile,            \* what fetch('westlake_high_events.ics') delivers
  scheduleData,       \* global scheduleData
  calendarABDays,     \* global Map date -> 'A' | 'B'
  allCalendarEvents,  \* global list of imported events
  debugNow,           \* global debugNow ({} is null)
  clock,              \* the wall clock, in the page's zone
  lastRenderedDate,   \* global ({} is null)
  todayEl,            \* date shown in the header
  status,             \* header status line
  lastPeriodStructure,
  periodsEl,          \* the periods panel
  eventsEl,           \* the events panel
  locals,             \* values computed by the last render cycle
  console             \* what has been logged

vars == <<pc, scheduleFile, icsFile, scheduleData, calendarABDays, allCalendarEvents,
          debugNow, clock, lastRenderedDate, todayEl, status, lastPeriodStructure,
          periodsEl, eventsEl, locals, console>>

\* ------------------------------------------------------------------ time
DayOf(t) == t \div TicksPerDay
startOfDay(t) == DayOf(t) * TicksPerDay

\* ymd: the local calendar date of an instant
ymd(d) == DayOf(d)

\* Date.prototype.getDay: 0 is Sunday
getDay(d) == (EpochWeekday + DayOf(d)) % 7

isWeekend(d) == getDay(d) = 0 \/ getDay(d) = 6

\* getNow: the simulated instant when debugNow is set, the wall clock otherwise
getNowReal(dbg, c) == c
getNow(dbg, c) == IF dbg # {} THEN CHOOSE t \in dbg : TRUE ELSE c

\* parseTime: the minute hm of the day of n, seconds zeroed
parseTime(hm, n) == startOfDay(n) + hm * TicksPerMinute

\* -------------------------------------------------------- calendar import
isSentinel(summary) == summary = "A Day" \/ summary = "B Day"

mapSet(m, k, v) == [x \in (DOMAIN m) \cup {k} |-> IF x = k THEN v ELSE m[x]]

eventOf(c) ==
  [summary |-> c.summary, startDate |-> c.startDate, endDate |-> c.endDate,
   location |-> c.location, isAllDay |-> c.isDate]

\* the date key of an A/B entry: startDate.toJSDate().toISOString().slice(0, 10), a UTC date
isoDate(t) == DayOf(t + UtcOffsetTicks)

\* The forEach body over vevents i.., with the results gathered so far.  A component's
\* fault is where its processing throws: "early" before the event is pushed (the
\* ICAL.Event getters, startDate.isDate), "late" in toJSDate/toISOString, which only
\* an A/B sentinel reaches.  A throw leaves forEach for the catch block, which logs
\* and falls through to the return.
RECURSIVE forEachVevent(_, _, _, _)
forEachVevent(comps, i, abDays, allEvents) ==
  IF i > Len(comps) THEN [abDays |-> abDays, allEvents |-> allEvents, error |-> FALSE]
  ELSE LET c == comps[i]
           pushed == Append(allEvents, eventOf(c))
       IN IF c.fault = "early"
            THEN [abDays |-> abDays, allEvents |-> allEvents, error |-> TRUE]
          ELSE IF isSentinel(c.summary)
            THEN IF c.fault = "late"
                   THEN [abDays |-> abDays, allEvents |-> pushed, error |-> TRUE]
                   ELSE forEachVevent(comps, i + 1,
                          mapSet(abDays, isoDate(c.startDate),
                                 IF c.summary = "A Day" THEN "A" ELSE "B"),
                          pushed)
          ELSE forEachVevent(comps, i + 1, abDays, pushed)

\* a faulty component is dropped and the import goes on
RECURSIVE forEachVeventSkip(_, _, _, _)
forEachVeventSkip(comps, i, abDays, allEvents) ==
  IF i > Len(comps) THEN [abDays |-> abDays, allEvents |-> allEvents, error |-> FALSE]
  ELSE LET c == comps[i]
           pushed == Append(allEvents, eventOf(c))
       IN IF c.fault = "early"
            THEN forEachVeventSkip(comps, i + 1, abDays, allEvents)
          ELSE IF isSentinel(c.summary) /\ c.fault # "late"
            THEN forEachVeventSkip(comps, i + 1,
                          mapSet(abDays, isoDate(c.startDate),
                                 IF c.summary = "A Day" THEN "A" ELSE "B"),
                          pushed)
          ELSE forEachVeventSkip(comps, i + 1, abDays, pushed)

parseICSCalendarSkip(ics) ==
  IF ~ics.top THEN [abDays |-> <<>>, allEvents |-> <<>>, error |-> TRUE, thrown |-> FALSE]
  ELSE [abDays |-> forEachVeventSkip(ics.comps, 1, <<>>, <<>>).abDays,
        allEvents |-> forEachVeventSkip(ics.comps, 1, <<>>, <<>>).allEvents,
        error |-> forEachVeventSkip(ics.comps, 1, <<>>, <<>>).error,
        thrown |-> FALSE]

\* parseICSCalendar: ics.top is whether ICAL.parse and the component lookup succeed.
\* error is whether the catch block ran (console.error); the try block holds every
\* statement that can throw, so nothing is thrown to the caller.
parseICSCalendar(ics) ==
  IF ~ics.top THEN [abDays |-> <<>>, allEvents |-> <<>>, error |-> TRUE, thrown |-> FALSE]
  ELSE [abDays |-> forEachVevent(ics.comps, 1, <<>>, <<>>).abDays,
        allEvents |-> forEachVevent(ics.comps, 1, <<>>, <<>>).allEvents,
        error |-> forEachVevent(ics.comps, 1, <<>>, <<>>).error,
        thrown |-> FALSE]

\* -------------------------------------------------------- day classifier
\* isSchoolDay: the range bounds are compared as instants, the off-days as dates
isSchoolDay(d) ==
  /\ scheduleData.loaded
  /\ d >= scheduleData.schoolYear.start
  /\ d <= scheduleData.schoolYear.end
  /\ ~isWeekend(d)
  /\ ymd(d) \notin scheduleData.offDays

\* the while loop of getABDay: cur steps one day at a time from schoolYear.start,
\* keeping its time of day (setDate)
RECURSIVE countSchoolDays(_, _)
countSchoolDays(cur, d) ==
  IF cur > d THEN 0
  ELSE (IF isSchoolDay(cur) THEN 1 ELSE 0) + countSchoolDays(cur + TicksPerDay, d)

getABDayNoOverride(d) ==
  IF ~isSchoolDay(d) THEN "null"
  ELSE IF countSchoolDays(scheduleData.schoolYear.start, d) % 2 = 1 THEN "A" ELSE "B"

getABDayOverrideFirst(d) ==
  IF ymd(d) \in DOMAIN calendarABDays THEN calendarABDays[ymd(d)]
  ELSE getABDayNoOverride(d)

\* getABDay, d being what its getNow() returns
getABDay(d) ==
  IF ~isSchoolDay(d) THEN "null"
  ELSE IF ymd(d) \in DOMAIN calendarABDays THEN calendarABDays[ymd(d)]
  ELSE IF countSchoolDays(scheduleData.schoolYear.start, d) % 2 = 1 THEN "A" ELSE "B"

\* ------------------------------------------------------- bell schedules
isWednesday(n) == getDay(n) = 3

todaySchedule(n) ==
  IF ~scheduleData.loaded THEN <<>>
  ELSE IF isWednesday(n) THEN scheduleData.schedules.wednesday
  ELSE scheduleData.schedules.regular

\* A row's code is [arr |-> whether it is an array, a |-> its labels]
labelFromCode(arr, n) ==
  IF arr[1] = "LUNCH" THEN arr[1]
  ELSE IF (IF getABDay(n) = "null" THEN "A" ELSE getABDay(n)) = "A" THEN arr[1] ELSE arr[2]

labelOf(code, n) == IF code.arr THEN labelFromCode(code.a, n) ELSE code.a[1]

\* Array.prototype.find: the least of the indices whose row satisfies the callback
\* (hits), 0 for undefined
find(hits) == IF hits = {} THEN 0 ELSE CHOOSE i \in hits : \A j \in hits : i <= j

getCurrentExclusiveEnd(n) ==
  find({i \in 1..Len(todaySchedule(n)) :
          /\ n >= parseTime(todaySchedule(n)[i].start, n)
          /\ n < parseTime(todaySchedule(n)[i].end, n)})

getCurrent(n) ==
  find({i \in 1..Len(todaySchedule(n)) :
          /\ n >= parseTime(todaySchedule(n)[i].start, n)
          /\ n <= parseTime(todaySchedule(n)[i].end, n)})

getNext(n) ==
  find({i \in 1..Len(todaySchedule(n)) : parseTime(todaySchedule(n)[i].start, n) > n})

\* ------------------------------------------------------------- renderers
\* renderHeader: the date and status are rewritten only when the date has changed
renderHeader(n) ==
  IF lastRenderedDate # {ymd(n)}
    THEN [lastRenderedDate |-> {ymd(n)}, todayEl |-> ymd(n),
          status |-> [ab |-> getABDay(n), wed |-> isWednesday(n)]]
    ELSE [lastRenderedDate |-> lastRenderedDate, todayEl |-> todayEl, status |-> status]

NoStructure == [type |-> "none", schedule |-> <<>>]

\* buildPeriodStructure (the class lookup that fills info is left out: it feeds
\* only the row's text)
buildPeriodStructure(n) ==
  LET sched == todaySchedule(n)
  IN IF getABDay(n) = "null" THEN [type |-> "no-school", schedule |-> <<>>]
     ELSE [type |-> "periods",
           schedule |-> [i \in 1..Len(sched) |->
                           [start |-> parseTime(sched[i].start, n),
                            end |-> parseTime(sched[i].end, n),
                            label |-> labelOf(sched[i].code, n)]]]

\* The periods panel: msg is the "No school today." line, cls[i] the className of
\* the row with data-index i, banners[i] the number of next-banner elements that
\* stand right before that row.
EmptyPanel == [msg |-> FALSE, cls |-> <<>>, banners |-> <<>>]

\* existingBanner.remove(): querySelector finds the first banner only
removeFirstBanner(banners) ==
  LET has == {i \in 1..Len(banners) : banners[i] > 0}
  IN IF has = {} THEN banners
     ELSE LET f == CHOOSE i \in has : \A j \in has : i <= j
          IN [banners EXCEPT ![f] = @ - 1]

\* updateDynamicContent: a row is matched to current / next by its label
updateDynamicContent(now, current, next, structure, el) ==
  LET cleared == [el EXCEPT !.banners = removeFirstBanner(el.banners)]
      sched == todaySchedule(now)
      items == structure.schedule
  IN IF structure.type = "no-school" THEN cleared
     ELSE [msg |-> cleared.msg,
           cls |-> [i \in 1..Len(items) |->
                      IF now > items[i].end THEN "period passed"
                      ELSE IF current # 0 /\ items[i].label = labelOf(sched[current].code, now)
                        THEN "period active"
                      ELSE "period"],
           banners |-> [i \in 1..Len(items) |->
                      cleared.banners[i] +
                      (IF ~(now > items[i].end) /\ current = 0 /\ next # 0
                            /\ items[i].label = labelOf(sched[next].code, now)
                         THEN 1 ELSE 0)]]

\* renderPeriods: the panel is rebuilt only when the structure differs from the last one
renderPeriods(n) ==
  LET current == getCurrent(n)
      next == getNext(n)
      currentStructure == buildPeriodStructure(n)
      changed == lastPeriodStructure = NoStructure \/ lastPeriodStructure # currentStructure
      fresh == [msg |-> FALSE,
                cls |-> [i \in 1..Len(currentStructure.schedule) |-> "period"],
                banners |-> [i \in 1..Len(currentStructure.schedule) |-> 0]]
  IN [current |-> current, next |-> next, ab |-> getABDay(n),
      lastPeriodStructure |-> currentStructure,
      periodsEl |->
        IF changed /\ currentStructure.type = "no-school"
          THEN [msg |-> TRUE, cls |-> <<>>, banners |-> <<>>]
        ELSE updateDynamicContent(n, current, next, currentStructure,
                                  IF changed THEN fresh ELSE periodsEl)]

\* --------------------------------------------------------------- events
includedStartTodayOnly(e, n) == DayOf(e.startDate) = DayOf(n)

\* the filter of getTodaysEvents: starts today, or spans across today's midnight
included(e, n) ==
  \/ DayOf(e.startDate) = DayOf(n)
  \/ (e.startDate < startOfDay(n) /\ e.endDate > startOfDay(n))

\* Array.prototype.sort by start (stable): idx is the set of positions still to place
RECURSIVE sortByStart(_, _)
sortByStart(events, idx) ==
  IF idx = {} THEN <<>>
  ELSE LET m == CHOOSE i \in idx : \A j \in idx :
                  \/ events[i].startDate < events[j].startDate
                  \/ (events[i].startDate = events[j].startDate /\ i <= j)
       IN <<m>> \o sortByStart(events, idx \ {m})

\* getTodaysEvents: the positions in allCalendarEvents of the events returned, in order
getTodaysEvents(n) ==
  sortByStart(allCalendarEvents,
              {i \in 1..Len(allCalendarEvents) : included(allCalendarEvents[i], n)})

eventClass(e, now) ==
  IF e.isAllDay THEN "event"
  ELSE IF now >= e.startDate /\ now <= e.endDate THEN "event active"
  ELSE IF now > e.endDate THEN "event passed"
  ELSE "event"

NoEventsEntry == [cls |-> "no-events", text |-> "No events scheduled for today."]

RECURSIVE eventEntries(_, _)
eventEntries(todays, now) ==
  IF todays = <<>> THEN <<>>
  ELSE LET e == allCalendarEvents[Head(todays)]
       IN (IF isSentinel(e.summary) THEN <<>>
           ELSE <<[cls |-> eventClass(e, now), text |-> e.summary]>>)
          \o eventEntries(Tail(todays), now)

\* renderEvents: the empty state is chosen before the A/B sentinels are skipped
renderEvents(n) ==
  LET todaysEvents == getTodaysEvents(n)
  IN [todaysEvents |-> todaysEvents,
      eventsEl |-> IF Len(todaysEvents) = 0 THEN <<NoEventsEntry>>
                   ELSE eventEntries(todaysEvents, n)]

\* ------------------------------------------------------------ the page
\* the fallback scheduleData of loadScheduleData: 2025-08-13T00:00:00 (day 0) to a
\* Friday's 23:59:59, no off-days, empty tables
FallbackData ==
  [loaded |-> TRUE,
   schoolYear |-> [start |-> 0, end |-> 3 * TicksPerDay - 1],
   offDays |-> {},
   schedules |-> [regular |-> <<>>, wednesday |-> <<>>]]

NoData ==
  [loaded |-> FALSE, schoolYear |-> [start |-> 0, end |-> 0], offDays |-> {},
   schedules |-> [regular |-> <<>>, wednesday |-> <<>>]]

NoLocals ==
  [nHeader |-> 0, now |-> 0, nEvents |-> 0, ab |-> "null", current |-> 0, next |-> 0,
   todaysEvents |-> <<>>]

\* loadScheduleData: the calendar is fetched only after the JSON has loaded; a
\* failed calendar fetch, or anything thrown while the calendar is read, leaves the
\* two calendar globals as they are
LoadScheduleData ==
  /\ pc = "boot"
  /\ pc' = "loaded"
  /\ scheduleData' = IF scheduleFile.ok THEN [scheduleFile.data EXCEPT !.loaded = TRUE]
                     ELSE FallbackData
  /\ \E r \in {parseICSCalendar(icsFile)} :
       IF ~scheduleFile.ok
         THEN /\ console' = <<"error: Failed to load schedule data">>
              /\ UNCHANGED <<calendarABDays, allCalendarEvents>>
       ELSE IF icsFile.ok /\ ~r.thrown
         THEN /\ calendarABDays' = r.abDays
              /\ allCalendarEvents' = r.allEvents
              /\ console' = (IF r.error THEN <<"error: Error parsing ICS with ical.js">>
                             ELSE <<>>) \o <<"log: Loaded">>
       ELSE /\ console' = <<"warn: Failed to load calendar data">>
            /\ UNCHANGED <<calendarABDays, allCalendarEvents>>
  /\ UNCHANGED <<scheduleFile, icsFile, debugNow, clock, lastRenderedDate, todayEl,
                 status, lastPeriodStructure, periodsEl, eventsEl, locals>>

sumSeq(q) ==
  LET RECURSIVE go(_)
      go(i) == IF i > Len(q) THEN 0 ELSE q[i] + go(i + 1)
  IN go(1)

\* renderAll with debugNow = dbg.  The three renderers read the clock one after the
\* other: the wall clock may move on by one tick between them (s1, s2).  The wall
\* clock stops at ClockStart + MaxClock, and a cycle that would leave more than
\* MaxBanners banners in the panel is not taken (stale banners can pile up, see
\* removeFirstBanner).
renderAll(dbg) ==
  \E s1 \in 0..1, s2 \in 0..1 :
    /\ s1 <= s2
    /\ dbg # {} => s2 = 0
    /\ clock + s2 <= ClockStart + MaxClock
    /\ \E nH \in {getNow(dbg, clock)}, nP \in {getNow(dbg, clock + s1)},
          nE \in {getNow(dbg, clock + s2)} :
         \E h \in {renderHeader(nH)}, p \in {renderPeriods(nP)}, e \in {renderEvents(nE)} :
          /\ sumSeq(p.periodsEl.banners) <= MaxBanners
          /\ clock' = clock + s2
          /\ lastRenderedDate' = h.lastRenderedDate
          /\ todayEl' = h.todayEl
          /\ status' = h.status
          /\ lastPeriodStructure' = p.lastPeriodStructure
          /\ periodsEl' = p.periodsEl
          /\ eventsEl' = e.eventsEl
          /\ locals' = [nHeader |-> nH, now |-> nP, nEvents |-> nE, ab |-> p.ab,
                        current |-> p.current, next |-> p.next,
                        todaysEvents |-> e.todaysEvents]

\* the rest of the DOMContentLoaded handler: the first renderAll, setInterval,
\* runTests (which restores debugNow)
Start ==
  /\ pc = "loaded"
  /\ pc' = "running"
  /\ renderAll(debugNow)
  /\ UNCHANGED <<scheduleFile, icsFile, scheduleData, calendarABDays, allCalendarEvents,
                 debugNow, console>>

\* the setInterval callback
Tick ==
  /\ pc = "running"
  /\ renderAll(debugNow)
  /\ UNCHANGED <<pc, scheduleFile, icsFile, scheduleData, calendarABDays,
                 allCalendarEvents, debugNow, console>>

\* the change listener of debugDateTime; v = {} is an emptied input
DebugChange(v) ==
  /\ pc = "running"
  /\ debugNow' = v
  /\ renderAll(v)
  /\ UNCHANGED <<pc, scheduleFile, icsFile, scheduleData, calendarABDays,
                 allCalendarEvents, console>>

\* the click listener of resetDebug
ResetDebug ==
  /\ pc = "running"
  /\ debugNow' = {}
  /\ renderAll({})
  /\ UNCHANGED <<pc, scheduleFile, icsFile, scheduleData, calendarABDays,
                 allCalendarEvents, console>>

\* a second passes
ClockTick ==
  /\ clock < ClockStart + MaxClock
  /\ clock' = clock + 1
  /\ UNCHANGED <<pc, scheduleFile, icsFile, scheduleData, calendarABDays,
                 allCalendarEvents, debugNow, lastRenderedDate, todayEl, status,
                 lastPeriodStructure, periodsEl, eventsEl, locals, console>>

Next ==
  \/ LoadScheduleData
  \/ Start
  \/ Tick
  \/ \E v \in {{}} \cup {{t} : t \in Instants} : DebugChange(v)
  \/ ResetDebug
  \/ ClockTick

\* ------------------------------------------------------------- inputs
pair(a, b) == [arr |-> TRUE, a |-> <<a, b>>]
plain(x) == [arr |-> FALSE, a |-> <<x>>]
row(s, e, c) == [start |-> s, end |-> e, code |-> c]

BaseRegular == <<row(0, 0, pair("A1", "B1")), row(1, 2, plain("LUNCH"))>>
BaseWednesday == <<row(1, 1, pair("A1", "B1"))>>

config(start, end, off, reg, wed) ==
  [ok |-> TRUE,
   data |-> [loaded |-> TRUE, schoolYear |-> [start |-> start, end |-> end],
             offDays |-> off, schedules |-> [regular |-> reg, wednesday |-> wed]]]

FetchFailed == [ok |-> FALSE, data |-> NoData]

BaseConfig == config(0, NDays * TicksPerDay - 1, {}, BaseRegular, BaseWednesday)

comp(summary, s, e, isDate, fault) ==
  [summary |-> summary, startDate |-> s, endDate |-> e, isDate |-> isDate,
   location |-> "", fault |-> fault]

allDay(summary, d) == comp(summary, d * TicksPerDay, (d + 1) * TicksPerDay, TRUE, "none")

feed(comps) == [ok |-> TRUE, top |-> TRUE, comps |-> comps]
NoFeed == [ok |-> FALSE, top |-> FALSE, comps |-> <<>>]
CorruptFeed == [ok |-> TRUE, top |-> FALSE, comps |-> <<>>]

seqsUpTo2(S) == {<<>>} \cup {<<x>> : x \in S} \cup {<<x, y>> : x \in S, y \in S}

InitPage ==
  /\ pc = "boot"
  /\ scheduleData = NoData
  /\ calendarABDays = <<>>
  /\ allCalendarEvents = <<>>
  /\ debugNow = {}
  /\ clock = ClockStart
  /\ lastRenderedDate = {}
  /\ todayEl = 0
  /\ status = [ab |-> "null", wed |-> FALSE]
  /\ lastPeriodStructure = NoStructure
  /\ periodsEl = EmptyPanel
  /\ eventsEl = <<>>
  /\ locals = NoLocals
  /\ console = <<>>

\* school years, off-days and A/B overrides
DayConfigs ==
  {config(s, e, off, BaseRegular, BaseWednesday) :
     s \in {0, TicksPerDay + TicksPerMinute},
     e \in {(NDays - 1) * TicksPerDay + TicksPerMinute, NDays * TicksPerDay - 1},
     off \in {{}, {1}}}
  \cup {FetchFailed}

DayFeeds ==
  {feed(<<>>), feed(<<allDay("A Day", 1)>>), feed(<<allDay("B Day", 3)>>)}

InitDay ==
  /\ InitPage
  /\ scheduleFile \in DayConfigs
  /\ icsFile \in DayFeeds

SpecDay == InitDay /\ [][Next]_vars

\* bell tables
PeriodTables ==
  { <<row(0, 0, pair("A1", "B1")), row(1, 2, pair("A2", "B2"))>>,
    <<row(0, 1, pair("A1", "B1")), row(2, 2, plain("LUNCH"))>>,
    <<row(0, 1, pair("A1", "B1")), row(1, 2, pair("A2", "B2"))>>,
    <<row(1, 1, plain("LUNCH")), row(2, 2, plain("LUNCH"))>>,
    <<row(0, 0, pair("A1", "B1")), row(2, 2, pair("A1", "B1"))>>,
    <<row(1, 1, pair("A1", "B1"))>>,
    <<>> }

InitPeriods ==
  /\ InitPage
  /\ scheduleFile \in {config(0, NDays * TicksPerDay - 1, {}, t, w) :
                          t \in PeriodTables, w \in {BaseWednesday, BaseRegular}}
  /\ icsFile \in {NoFeed}

SpecPeriods == InitPeriods /\ [][Next]_vars

\* calendar feeds with faulty components
FaultyComps ==
  { comp("Game", TicksPerDay + 1, TicksPerDay + 2, FALSE, "none"),
    comp("Game", TicksPerDay + 1, TicksPerDay + 2, FALSE, "early"),
    allDay("A Day", 1),
    comp("B Day", 2 * TicksPerDay, 3 * TicksPerDay, TRUE, "late") }

InitICS ==
  /\ InitPage
  /\ scheduleFile \in {BaseConfig}
  /\ icsFile \in {feed(c) : c \in seqsUpTo2(FaultyComps)} \cup {CorruptFeed, NoFeed}

SpecICS == InitICS /\ [][Next]_vars

\* calendar events around day 2
EventComps ==
  { allDay("Assembly", 2),
    allDay("A Day", 2),
    comp("Trip", 1, 2 * TicksPerDay + 2, FALSE, "none"),
    comp("Bell", 2 * TicksPerDay, 2 * TicksPerDay, FALSE, "none"),
    comp("Dance", TicksPerDay + 1, 2 * TicksPerDay, FALSE, "none") }

InitEvents ==
  /\ InitPage
  /\ scheduleFile \in {BaseConfig}
  /\ icsFile \in {feed(c) : c \in seqsUpTo2(EventComps)}

SpecEvents == InitEvents /\ [][Next]_vars

Init == InitDay \/ InitPeriods \/ InitICS \/ InitEvents

Spec == Init /\ [][Next]_vars

\* ------------------------------------------------------------- claims
rendered == pc = "running"
theDebugNow == CHOOSE t \in debugNow : TRUE
yearStart == scheduleData.schoolYear.start
yearEnd == scheduleData.schoolYear.end

\* a calendar date some instant of which satisfies the school-day predicate
schoolDate(D) == \E t \in Instants : DayOf(t) = D /\ isSchoolDay(t)
schoolDatesThrough(D) == Cardinality({x \in 0..D : schoolDate(x)})

\* C1: with no overrides, a render on a school day shows A on the first school date
\* of the year and the other label than the school date before it on every later
\* one: A when the number of school dates up to today is odd, B when it is even,
\* whatever the time of day of schoolYear.start and of the query.
C1_FirstDayA_Alternating ==
  (rendered /\ calendarABDays = <<>> /\ isSchoolDay(locals.now))
    => locals.ab = (IF schoolDatesThrough(DayOf(locals.now)) % 2 = 1 THEN "A" ELSE "B")

\* the bounds of a row of today's table, as instants of the day of n
rowLo(n, i) == startOfDay(n) + todaySchedule(n)[i].start * TicksPerMinute
rowHi(n, i) == startOfDay(n) + todaySchedule(n)[i].end * TicksPerMinute
rowHolds(n, i) == rowLo(n, i) <= n /\ n <= rowHi(n, i)
rowsOf(n) == 1..Len(todaySchedule(n))

\* C2: the row getCurrent returns is the first row of the table with
\* start <= now <= end, both bounds inclusive: at a row's start and at its end a row
\* is returned (that one, or an earlier one that holds now too), one tick after a
\* row's end that row is not returned, and after every row's end none is.
C2_CurrentInclusive ==
  rendered =>
    LET n == locals.now
        cur == locals.current
    IN /\ cur # 0 => (cur \in rowsOf(n) /\ rowHolds(n, cur)
                        /\ \A j \in 1..(cur - 1) : ~rowHolds(n, j))
       /\ cur = 0 => \A i \in rowsOf(n) : ~rowHolds(n, i)
       /\ \A i \in rowsOf(n) :
            /\ (n = rowLo(n, i) /\ rowLo(n, i) <= rowHi(n, i)) => cur \in 1..i
            /\ (n = rowHi(n, i) /\ rowLo(n, i) <= rowHi(n, i)) => cur \in 1..i
            /\ n = rowHi(n, i) + 1 => cur # i
       /\ (\A i \in rowsOf(n) : n > rowHi(n, i)) => cur = 0

\* a render at the end instant of a row that lasts longer than an instant
C2_Witness ==
  /\ rendered
  /\ locals.current # 0
  /\ locals.now = rowHi(locals.now, locals.current)
  /\ rowLo(locals.now, locals.current) < locals.now

inRangeWeekdayNotOff(n) ==
  /\ n >= yearStart
  /\ n <= yearEnd
  /\ getDay(n) \in 1..5
  /\ DayOf(n) \notin scheduleData.offDays

\* C3: a render on a school day whose date has an override entry shows that entry,
\* whatever the parity of the school days counted.
C3_OverrideWins ==
  (rendered /\ inRangeWeekdayNotOff(locals.now)
     /\ DayOf(locals.now) \in DOMAIN calendarABDays)
    => locals.ab = calendarABDays[DayOf(locals.now)]

\* a school day whose override differs from what the count would give
C3_Witness ==
  /\ rendered
  /\ inRangeWeekdayNotOff(locals.now)
  /\ DayOf(locals.now) \in DOMAIN calendarABDays
  /\ locals.ab = "A"
  /\ countSchoolDays(yearStart, locals.now) % 2 = 0

\* C4: at an instant outside [start, end], on a Saturday or Sunday, or on an
\* off-day, isSchoolDay is false and the rotation is null (the panel shows no
\* school), also when the date has an override entry.
C4_NoSchoolIsNull ==
  (rendered /\ ~inRangeWeekdayNotOff(locals.now))
    => /\ ~isSchoolDay(locals.now)
       /\ locals.ab = "null"
       /\ lastPeriodStructure.type = "no-school"

\* a no-school instant, inside the year, whose date has an override entry
C4_Witness ==
  /\ rendered
  /\ locals.now >= yearStart
  /\ locals.now <= yearEnd
  /\ (isWeekend(locals.now) \/ DayOf(locals.now) \in scheduleData.offDays)
  /\ DayOf(locals.now) \in DOMAIN calendarABDays
  /\ locals.ab = "null"

\* the import
imported == pc # "boot" /\ scheduleFile.ok /\ icsFile.ok
faulty(c) == c.fault = "early" \/ (c.fault = "late" /\ isSentinel(c.summary))
firstFaulty(comps) ==
  LET bad == {i \in 1..Len(comps) : faulty(comps[i])}
  IN IF bad = {} THEN Len(comps) + 1 ELSE CHOOSE i \in bad : \A j \in bad : i <= j
parseFails(ics) == ~ics.top \/ firstFaulty(ics.comps) <= Len(ics.comps)
returnedNormally == console # <<>> /\ console[Len(console)] = "log: Loaded"

returnedSet == {locals.todaysEvents[i] : i \in 1..Len(locals.todaysEvents)}
midnight == startOfDay(locals.nEvents)
eventIdx == 1..Len(allCalendarEvents)
startsToday(i) == DayOf(allCalendarEvents[i].startDate) = DayOf(locals.nEvents)
spansToday(i) ==
  allCalendarEvents[i].startDate < midnight /\ allCalendarEvents[i].endDate > midnight

\* C6 as stated: getTodaysEvents returns exactly the events that start today or
\* that start before today's midnight and end after it; an event that started two
\* days earlier and covers today is returned; an event that ended at or before
\* today's midnight is not.
C6_TodaysEvents ==
  rendered =>
    /\ returnedSet = {i \in eventIdx : startsToday(i) \/ spansToday(i)}
    /\ Cardinality(returnedSet) = Len(locals.todaysEvents)
    /\ \A i \in eventIdx :
         (DayOf(allCalendarEvents[i].startDate) = DayOf(locals.nEvents) - 2
            /\ allCalendarEvents[i].endDate > midnight) => i \in returnedSet
    /\ \A i \in eventIdx : allCalendarEvents[i].endDate <= midnight => i \notin returnedSet

\* C6 as amended: the same, the last part being: an event that started before today
\* and ended at or before today's midnight is not returned.
C6_TodaysEventsAmended ==
  rendered =>
    /\ returnedSet = {i \in eventIdx : startsToday(i) \/ spansToday(i)}
    /\ Cardinality(returnedSet) = Len(locals.todaysEvents)
    /\ \A i \in eventIdx :
         (DayOf(allCalendarEvents[i].startDate) = DayOf(locals.nEvents) - 2
            /\ allCalendarEvents[i].endDate > midnight) => i \in returnedSet
    /\ \A i \in eventIdx :
         (allCalendarEvents[i].startDate < midnight
            /\ allCalendarEvents[i].endDate <= midnight) => i \notin returnedSet

\* an event that started two days ago is returned, one that ended at midnight is not
C6_Witness ==
  /\ rendered
  /\ \E i \in returnedSet :
       DayOf(allCalendarEvents[i].startDate) = DayOf(locals.nEvents) - 2
  /\ \E i \in eventIdx \ returnedSet :
       allCalendarEvents[i].startDate < midnight /\ allCalendarEvents[i].endDate = midnight

\* C7: in a render cycle run with debugNow set, the header, the periods (rotation,
\* table, current and next row) and the events are all those of the simulated
\* instant; in a cycle run without it, all of them are readings of the wall clock
\* at most one tick apart.  No cycle mixes the two, under any interleaving of the
\* timer, the debug input and the reset button.
C7_OneInstantPerCycle ==
  rendered =>
    /\ debugNow # {} =>
         /\ locals.nHeader = theDebugNow
         /\ locals.now = theDebugNow
         /\ locals.nEvents = theDebugNow
         /\ lastRenderedDate = {DayOf(theDebugNow)}
         /\ locals.ab = getABDay(theDebugNow)
         /\ locals.current = getCurrent(theDebugNow)
         /\ locals.next = getNext(theDebugNow)
         /\ locals.todaysEvents = getTodaysEvents(theDebugNow)
    /\ debugNow = {} =>
         /\ locals.nHeader <= locals.now
         /\ locals.now <= locals.nEvents
         /\ locals.nEvents <= locals.nHeader + 1
         /\ locals.nHeader >= ClockStart
         /\ locals.nEvents <= clock

\* a cycle run at a simulated instant of another day than the wall clock's, in a row
C7_Witness ==
  /\ rendered
  /\ debugNow # {}
  /\ DayOf(theDebugNow) # DayOf(clock)
  /\ locals.current # 0
  /\ locals.now = theDebugNow

\* C8: an instant on the calendar day of schoolYear.end, after its time of day, on
\* a weekday that is not an off-day, is a school day and has a rotation label.
C8_EndDayInRange ==
  (rendered /\ DayOf(locals.now) = DayOf(yearEnd) /\ locals.now > yearEnd
     /\ DayOf(locals.now) >= DayOf(yearStart) /\ locals.now >= yearStart
     /\ getDay(locals.now) \in 1..5 /\ DayOf(locals.now) \notin scheduleData.offDays)
    => /\ isSchoolDay(locals.now)
       /\ locals.ab \in {"A", "B"}

\* C9: in a render on a school day, a row is passed iff now is after its end, a row
\* is active iff it is the row getCurrent returned (so at most one is), and when
\* there is no current row the "starts in" banner stands before the row getNext
\* returned and before no other, that row not being active; this for every table,
\* also one in which several rows resolve to the same label.
C9_RowStatus ==
  (rendered /\ lastPeriodStructure.type = "periods") =>
    LET n == locals.now
    IN /\ Len(periodsEl.cls) = Len(todaySchedule(n))
       /\ \A i \in rowsOf(n) :
            /\ (periodsEl.cls[i] = "period passed") <=> (n > rowHi(n, i))
            /\ (periodsEl.cls[i] = "period active") <=> (i = locals.current)
            /\ locals.current # 0 => periodsEl.banners[i] = 0
            /\ locals.current = 0 =>
                 /\ periodsEl.banners[i] = (IF i = locals.next THEN 1 ELSE 0)
                 /\ periodsEl.cls[i] # "period active"
       /\ Cardinality({i \in rowsOf(n) : periodsEl.cls[i] = "period active"}) <= 1

\* C10: after renderEvents the panel shows the "No events scheduled for today."
\* entry exactly when today has no event to display (no event at all, or only
\* A Day / B Day sentinels), and is never left empty.
C10_EmptyState ==
  rendered =>
    LET shown == {eventsEl[i] : i \in 1..Len(eventsEl)}
        displayable == {i \in returnedSet : ~isSentinel(allCalendarEvents[i].summary)}
    IN /\ (NoEventsEntry \in shown) <=> (displayable = {})
       /\ eventsEl # <<>>

====
